---- MODULE Spec2Model ----
(***************************************************************************)
(* Model of the `morphism` closure chain (src/src/morphism.rs) and of the  *)
(* Coyoneda functor wrapper built on it (src/src/lib.rs).                  *)
(*                                                                         *)
(* A Morphism<A, B> is a LinkedList of VecDeques of boxed closures over    *)
(* erased pointers, plus the phantom types A and B.  The model keeps the   *)
(* list of deques as a sequence of sequences of closure names, and keeps   *)
(* the phantom types as two fields, so that the agreement between the      *)
(* compile-time types and the stored closures can be stated.               *)
(*                                                                         *)
(* A value behind an erased pointer is a record carrying the Rust type it  *)
(* was boxed with (ty); transmuting the pointer back at another type is    *)
(* undefined behaviour.                                                    *)
(***************************************************************************)
EXTENDS Integers, Sequences, FiniteSets, TLC

VARIABLES
    conf,       \* the client program modelled: its threads and its size limits
    chains,     \* binding -> the Morphism it owns, or NoChain
    runs,       \* thread -> the activation of Morphism::run it executes
    last,       \* the last builder call (history variable)
    panicked,   \* an Option::unwrap() in a push failed
    fl,         \* tests::fn_like: its locals
    rd,         \* tests::readme: its locals
    coy         \* lib.rs: a Coyoneda value and what unwrap returned

vars == <<conf, chains, runs, last, panicked, fl, rd, coy>>

(***************************************************************************)
(* Bounds of the model.                                                    *)
(***************************************************************************)
MaxSteps == 3      \* Spec: closures held by all live chains together
MaxSegs == 3       \* Spec: segments (VecDeques) held by all live chains together
MaxConcSteps == 2  \* SpecConc: closures held by all live chains together
MaxConcSegs == 2   \* SpecConc: segments held by all live chains together

Slots == {"f", "g"}          \* the bindings that own chains
Callee == "f"                \* the binding run is called on (they are interchangeable)
Threads == {"t1", "t2"}      \* the threads that call run
Owner == "t1"                \* the thread that owns the bindings

(***************************************************************************)
(* Values.                                                                 *)
(***************************************************************************)
Val(ty, tag, n, b, s) == [ty |-> ty, tag |-> tag, n |-> n, b |-> b, s |-> s]

I32(n) == Val("i32", "v", n, FALSE, "")
Str(s) == Val("String", "v", 0, FALSE, s)
U64(n) == Val("u64", "v", n, FALSE, "")
\* usize (64 bits): tag "v" is the number n, tag "2^64-" the number 2^64 - n.
Usize(tag, n) == Val("usize", tag, n, FALSE, "")
\* Option<u64>: tag is "Some" or "None".
OptU64(tag, n) == Val("Option<u64>", tag, n, FALSE, "")
\* (Option<u64>, String) and (Option<u64>, bool, String).
Pair(tag, n, s) == Val("(Option<u64>,String)", tag, n, FALSE, s)
Triple(tag, n, b, s) == Val("(Option<u64>,bool,String)", tag, n, b, s)
\* The outcome of an integer overflow: a panic with overflow checks (the
\* test profile), a wrapped number without them.
Overflow(ty) == Val(ty, "overflow", 0, FALSE, "")
\* What a transmute at the wrong type yields: undefined behaviour.
UBVal == Val("?", "UB", 0, FALSE, "")

RECURSIVE I32ToString(_)
Digit(d) ==
    CASE d = 0 -> "0" [] d = 1 -> "1" [] d = 2 -> "2" [] d = 3 -> "3"
      [] d = 4 -> "4" [] d = 5 -> "5" [] d = 6 -> "6" [] d = 7 -> "7"
      [] d = 8 -> "8" [] OTHER -> "9"
\* i32::to_string: decimal digits, most significant first, "-" when negative.
I32ToString(n) ==
    IF n < 0 THEN "-" \o I32ToString(0 - n)
    ELSE IF n < 10 THEN Digit(n)
    ELSE I32ToString(n \div 10) \o Digit(n % 10)

(***************************************************************************)
(* The closures given to head / tail / push_front / push_back / fmap.      *)
(***************************************************************************)
\* The closures of the Coyoneda tests, which the clients of Spec and SpecConc
\* use as well.
Closures == {"inc", "to_string", "foo", "bar"}

ArgTy(f) ==
    CASE f = "inc" -> "i32"
      [] f = "to_string" -> "i32"
      [] f = "foo" -> "String"
      [] f = "bar" -> "String"
      [] f = "add42" -> "u64"
      [] f = "some" -> "u64"
      [] f = "sub42" -> "Option<u64>"
      [] f = "welp" -> "Option<u64>"
      [] f = "fst_add42" -> "(Option<u64>,String)"
      [] f = "is_some" -> "(Option<u64>,String)"
      [] f = "as_i32" -> "usize"
      [] OTHER -> "?"

RetTy(f) ==
    CASE f = "inc" -> "i32"
      [] f = "to_string" -> "String"
      [] f = "foo" -> "String"
      [] f = "bar" -> "String"
      [] f = "add42" -> "u64"
      [] f = "some" -> "Option<u64>"
      [] f = "sub42" -> "Option<u64>"
      [] f = "welp" -> "(Option<u64>,String)"
      [] f = "fst_add42" -> "(Option<u64>,String)"
      [] f = "is_some" -> "(Option<u64>,bool,String)"
      [] f = "as_i32" -> "i32"
      [] OTHER -> "?"

\* x.map(|y| y + k) and x.map(|y| y - k) on the Option<u64> part of a value;
\* a difference below zero overflows.  (Sums stay far below 2^64 here.)
MapAdd(v, k) == IF v.tag = "Some" THEN [v EXCEPT !.n = @ + k] ELSE v
MapSub(v, k) ==
    IF v.tag # "Some" THEN v
    ELSE IF v.n < k THEN Overflow(v.ty)
    ELSE [v EXCEPT !.n = @ - k]

\* n as usize, for an i32 n: the sign is extended to 64 bits.
AsUsize(v) == IF v.n >= 0 THEN Usize("v", v.n) ELSE Usize("2^64-", 0 - v.n)
\* x as i32, for a usize x: the low 32 bits, read as a signed number.  (Of the
\* numbers 2^64 - n only those with n <= 2^31 occur, and of the others only
\* those below 2^31.)
AsI32(v) == IF v.tag = "2^64-" THEN I32(0 - v.n) ELSE I32(v.n)

\* The closure body, applied to a value of its argument type.
\*   inc        |n: i32| n + 1                          lib.rs
\*   to_string  |n: i32| n.to_string()
\*   foo, bar   |s| s + "foo", |s| s + "bar"
\*   add42      |x| x + 42u64                           morphism.rs tests
\*   some       |x| Some(x)
\*   sub42      |x| x.map(|y| y - 42u64)
\*   welp       |x| (x.map(|y| y + 1000u64), "welp".to_string())
\*   fst_add42  |(l, r)| (l.map(|y| y + 42u64), r)
\*   is_some    |(l, r)| (l, l.is_some(), r)
\*   as_i32     |x| x as i32                            lib.rs test::transform
Call(f, v) ==
    IF v.tag = "overflow" THEN Overflow(RetTy(f))
    ELSE CASE f = "inc" ->
                IF v.n = 2147483647 THEN Overflow("i32") ELSE I32(v.n + 1)
           [] f = "to_string" -> Str(I32ToString(v.n))
           [] f = "foo" -> Str(v.s \o "foo")
           [] f = "bar" -> Str(v.s \o "bar")
           [] f = "add42" -> U64(v.n + 42)
           [] f = "some" -> OptU64("Some", v.n)
           [] f = "sub42" -> MapSub(v, 42)
           [] f = "welp" ->
                LET l == MapAdd(v, 1000) IN Pair(l.tag, l.n, "welp")
           [] f = "fst_add42" -> MapAdd(v, 42)
           [] f = "is_some" -> Triple(v.tag, v.n, v.tag = "Some", v.s)
           [] f = "as_i32" -> AsI32(v)
           [] OTHER -> UBVal

\* The arguments run is called with.
Inputs(ty) ==
    CASE ty = "i32" -> {I32(0), I32(42)}
      [] ty = "String" -> {Str(""), Str("x")}
      [] OTHER -> {}

Types == {"i32", "String"}
AllInputs == UNION {Inputs(ty) : ty \in Types}

(***************************************************************************)
(* An opaque step: the boxed closure g of unsafe_push_front / _back, which  *)
(* unboxes the erased pointer, calls f and boxes the result.                *)
(***************************************************************************)
\* The outcomes of calling the boxed closure on an erased pointer: the
\* closure's result when the pointer was boxed at the closure's argument
\* type, anything at all otherwise.
StepOutcomes(f, v) ==
    IF v.ty = ArgTy(f) THEN {Call(f, v)} ELSE AllInputs \cup {UBVal}

\* The same as a function, with UBVal standing for "anything at all".
StepCall(f, v) ==
    IF v.ty = ArgTy(f) THEN Call(f, v) ELSE UBVal

(***************************************************************************)
(* struct Morphism and its builder methods.                                *)
(***************************************************************************)
Morphism(mfns, A, B) == [mfns |-> mfns, A |-> A, B |-> B]
NoChain == Morphism(<<>>, "-", "-")

NewMfns == << <<>> >>
New(A) == Morphism(NewMfns, A, A)

\* front_mut().unwrap() / back_mut().unwrap() on an empty list panics.
UnwrapPanics(c) == c.mfns = <<>>

\* Mutant: the closure goes to the back of the first segment.
PushFrontMfnsBack(mfns, f) == [mfns EXCEPT ![1] = Append(@, f)]
PushFrontMfns(mfns, f) == [mfns EXCEPT ![1] = <<f>> \o @]
UnsafePushFront(c, f) ==
    IF UnwrapPanics(c) THEN c ELSE [c EXCEPT !.mfns = PushFrontMfns(@, f)]

\* Mutant: the where clause of head names the chain's output type.
HeadTypeOkWrong(c, f) == RetTy(f) = c.B
HeadTypeOk(c, f) == RetTy(f) = c.A
MorphismHead(c, f) == [UnsafePushFront(c, f) EXCEPT !.A = ArgTy(f)]

PushFrontTypeOk(c, f) == ArgTy(f) = c.A /\ RetTy(f) = c.A
PushFront(c, f) == UnsafePushFront(c, f)

\* Mutant: the closure goes to the back of the first segment.
PushBackMfnsFirst(mfns, f) == [mfns EXCEPT ![1] = Append(@, f)]
PushBackMfns(mfns, f) == [mfns EXCEPT ![Len(mfns)] = Append(@, f)]
UnsafePushBack(c, f) ==
    IF UnwrapPanics(c) THEN c ELSE [c EXCEPT !.mfns = PushBackMfns(@, f)]

TailTypeOk(c, f) == ArgTy(f) = c.B
MorphismTail(c, f) == [UnsafePushBack(c, f) EXCEPT !.B = RetTy(f)]

PushBackTypeOk(c, f) == ArgTy(f) = c.B /\ RetTy(f) = c.B
PushBack(c, f) == UnsafePushBack(c, f)

ThenTypeOk(c, other) == other.A = c.B
RECURSIVE Concat(_)
Concat(ss) == IF ss = <<>> THEN <<>> ELSE Head(ss) \o Concat(Tail(ss))
\* Mutant: then merges all closures into one segment.
ThenMfnsMerged(lhs, rhs) == <<Concat(lhs \o rhs)>>
\* Mutant: rhs.append(lhs) instead of lhs.append(rhs).
ThenMfnsSwapped(lhs, rhs) == rhs \o lhs
ThenMfns(lhs, rhs) == lhs \o rhs
Then(c, other) == Morphism(ThenMfns(c.mfns, other.mfns), c.A, other.B)

(***************************************************************************)
(* Morphism::run.                                                          *)
(***************************************************************************)
RECURSIVE Flatten(_), NextPos(_, _, _), RunSteps(_, _, _, _)

\* The closures in the order the two nested for loops visit them.
Flatten(mfns) ==
    IF mfns = <<>> THEN <<>> ELSE Head(mfns) \o Flatten(Tail(mfns))

NumSteps(c) == Len(Flatten(c.mfns))

\* Mutant: the inner loop without the outer one.
NextPosInner(mfns, seg, idx) ==
    IF seg > Len(mfns) THEN <<0, 0>>
    ELSE IF idx < Len(mfns[seg]) THEN <<seg, idx + 1>>
    ELSE <<0, 0>>

\* The position of the next closure the loops visit after `idx` closures of
\* segment `seg` were called, or <<0, 0>> when both iterators are exhausted.
NextPos(mfns, seg, idx) ==
    IF seg > Len(mfns) THEN <<0, 0>>
    ELSE IF idx < Len(mfns[seg]) THEN <<seg, idx + 1>>
    ELSE NextPos(mfns, seg + 1, 0)

\* res = f.call((res,)) for the closures fs[lo..hi], in order.  The range is
\* cut in two so that the evaluation depth stays logarithmic.
RunSteps(fs, lo, hi, res) ==
    IF lo > hi THEN res
    ELSE IF lo = hi THEN StepCall(fs[lo], res)
    ELSE LET mid == (lo + hi) \div 2
             left == RunSteps(fs, lo, mid, res)
         IN  IF left.tag = "UB" THEN left ELSE RunSteps(fs, mid + 1, hi, left)

\* Mutant: a default value is boxed instead of the argument.
RunBoxDefault(x) == [x EXCEPT !.n = 7, !.s = "default"]
\* Box the argument.
RunBox(x) == x
\* The final *transmute::<*const (), Box<B>>(res).
RunUnbox(c, res) == IF res.ty = c.B THEN res ELSE UBVal

Run(c, x) ==
    LET fs == Flatten(c.mfns)
    IN  RunUnbox(c, RunSteps(fs, 1, Len(fs), RunBox(x)))

(***************************************************************************)
(* Spec: clients of the safe API.  Each binding owns at most one chain; a  *)
(* builder call needs the chain unborrowed (run borrows it through &self), *)
(* and the type guards are the where clauses the compiler enforces.        *)
(***************************************************************************)
NoVal == Val("-", "-", 0, FALSE, "")
IdleRun ==
    [pc |-> "idle", s |-> "-", x |-> NoVal, seg |-> 0, idx |-> 0,
     res |-> NoVal, depth |-> 0, log |-> <<>>, c0 |-> NoChain, ov |-> FALSE]

LastOp(op, s, f, pre, other) ==
    [op |-> op, s |-> s, f |-> f, pre |-> pre, other |-> other]
NoOp == LastOp("none", "-", "-", NoChain, NoChain)
\* The history variable is kept only where a property reads it.
Record(op) == IF conf.hist THEN op ELSE NoOp

Live(s) == chains[s] # NoChain
Borrowed(s) == \E t \in Threads : runs[t].pc # "idle" /\ runs[t].s = s

RECURSIVE StepsOf(_), SegsOf(_)
StepsOf(S) ==
    IF S = {} THEN 0
    ELSE LET s == CHOOSE e \in S : TRUE
         IN  NumSteps(chains[s]) + StepsOf(S \ {s})
SegsOf(S) ==
    IF S = {} THEN 0
    ELSE LET s == CHOOSE e \in S : TRUE
         IN  Len(chains[s].mfns) + SegsOf(S \ {s})
TotalSteps == StepsOf(Slots)
TotalSegs == SegsOf(Slots)

\* The client programs: a sequential one; one with two threads and no unsafe
\* code; and one with two threads that hands &f to the second thread through
\* unsafe code (a wrapper declared Sync), which the compiler then accepts.
Conf(prog, threads, steps, segs, hist, forced) ==
    [prog |-> prog, threads |-> threads, steps |-> steps, segs |-> segs,
     hist |-> hist, forced |-> forced]
TestConf(prog) == Conf(prog, {}, 0, 0, FALSE, FALSE)
SeqConf == Conf("client", {Owner}, MaxSteps, MaxSegs, TRUE, FALSE)
ConcConf == Conf("client", Threads, MaxConcSteps, MaxConcSegs, FALSE, FALSE)
ForcedConcConf == Conf("client", Threads, MaxConcSteps, MaxConcSegs, FALSE, TRUE)

\* mfns holds Box<Fn(*const ()) -> *const () + 'a>: a trait object without a
\* Send or Sync bound, so Morphism is neither Send nor Sync, whatever the
\* closures are.  The compiler rejects a client that lets a thread other
\* than the owner of the chain reach it.
MorphismIsSync == FALSE
CanRun(t) == t = Owner \/ MorphismIsSync \/ conf.forced

\* tests::fn_like: n counts the iterations of the loop done, and stands for
\* the local f, which is the chain n appends make; i counts the items map has
\* taken.
FlState(pc, n, i, sum, out) ==
    [pc |-> pc, n |-> n, i |-> i, sum |-> sum, out |-> out]
NoFl == FlState("-", 0, 0, 0, NoVal)
\* tests::readme: pc is the statement the test is at, and stands for the
\* locals f, g and h, whose values the statements before it fix.
RdState(pc, x, out1, out2) == [pc |-> pc, x |-> x, out1 |-> out1, out2 |-> out2]
NoRd == RdState("-", 0, NoVal, NoVal)
\* A container T: Box<A>, Option<A> or Result<A, ()>, with A its Param.
Cont(kind, tag, ty, v) == [kind |-> kind, tag |-> tag, ty |-> ty, v |-> v]
NoCont == Cont("-", "-", "-", NoVal)
\* struct Coyoneda { point, morph }
Coyoneda(point, morph) == [point |-> point, morph |-> morph]
\* c is the Coyoneda, out what unwrap returned; point0 remembers the lifted
\* container, fs the closures of the fmap calls, gs those of the transform
\* calls, last first, and replaced that the point was replaced.
CoyState(pc, c, point0, fs, gs, replaced, out) ==
    [pc |-> pc, c |-> c, point0 |-> point0, fs |-> fs, gs |-> gs,
     replaced |-> replaced, out |-> out]
NoCoy == CoyState("-", Coyoneda(NoCont, NoChain), NoCont, <<>>, <<>>, FALSE, NoCont)

InitClient(c) ==
    /\ conf = c
    /\ chains = [s \in Slots |-> NoChain]
    /\ runs = [t \in Threads |-> IdleRun]
    /\ last = NoOp
    /\ panicked = FALSE
    /\ fl = NoFl
    /\ rd = NoRd
    /\ coy = NoCoy

Init == InitClient(SeqConf)
InitConc == InitClient(ConcConf) \/ InitClient(ForcedConcConf)

\* let s = Morphism::new::<A>();
DoNew(s, A) ==
    /\ conf.prog = "client"
    /\ ~panicked
    /\ ~Live(s)
    /\ TotalSegs < conf.segs
    /\ chains' = [chains EXCEPT ![s] = New(A)]
    /\ last' = Record(LastOp("new", s, "-", NoChain, NoChain))
    /\ UNCHANGED <<conf, runs, panicked, fl, rd, coy>>

\* A call of one of the four push methods on the chain bound to s: `ok` is
\* the method's where clause, `result` the chain it leaves.
Push(op, s, f, ok, result) ==
    /\ conf.prog = "client"
    /\ ~panicked
    /\ Live(s)
    /\ ~Borrowed(s)
    /\ TotalSteps < conf.steps
    /\ ok
    /\ IF UnwrapPanics(chains[s])
       THEN /\ panicked' = TRUE
            /\ UNCHANGED <<chains, last>>
       ELSE /\ chains' = [chains EXCEPT ![s] = result]
            /\ last' = Record(LastOp(op, s, f, chains[s], NoChain))
            /\ UNCHANGED panicked
    /\ UNCHANGED <<conf, runs, fl, rd, coy>>

\* let s = s.head(f);
DoHead(s, f) ==
    Push("head", s, f, HeadTypeOk(chains[s], f), MorphismHead(chains[s], f))

\* (&mut s).push_front(f);
DoPushFront(s, f) ==
    Push("push_front", s, f, PushFrontTypeOk(chains[s], f), PushFront(chains[s], f))

\* let s = s.tail(f);
DoTail(s, f) ==
    Push("tail", s, f, TailTypeOk(chains[s], f), MorphismTail(chains[s], f))

\* (&mut s).push_back(f);
DoPushBack(s, f) ==
    Push("push_back", s, f, PushBackTypeOk(chains[s], f), PushBack(chains[s], f))

\* let s = s.then(o);  both chains are moved, o's list is left empty and
\* dropped.
DoThen(s, o) ==
    /\ conf.prog = "client"
    /\ ~panicked
    /\ s # o
    /\ Live(s) /\ Live(o)
    /\ ~Borrowed(s) /\ ~Borrowed(o)
    /\ ThenTypeOk(chains[s], chains[o])
    /\ chains' = [chains EXCEPT ![s] = Then(chains[s], chains[o]), ![o] = NoChain]
    /\ last' = Record(LastOp("then", s, "-", chains[s], chains[o]))
    /\ UNCHANGED <<conf, runs, panicked, fl, rd, coy>>

\* The chain a running thread reads through &self.
ChainOf(t) == chains[runs[t].s]
\* Mutant: res is a static shared by all activations of run.
CallArgShared(t) == runs[Owner].res
\* Mutant: the iterators take the closures out of the deque (a draining
\* iterator instead of iter()).
IterDrained(c, p) == [c EXCEPT !.mfns[p[1]] = Tail(@)]
\* The chain after its iterators yielded the closure at position p: iter()
\* borrows the list and the deques, and leaves them as they are.
Iterated(c, p) == c

\* The erased pointer the thread hands to the next closure.
CallArg(t) == runs[t].res
\* Another thread is inside run on the same chain.
Overlaps(t) ==
    \E u \in Threads \ {t} :
        runs[u].pc \in {"iter", "call"} /\ runs[u].s = runs[t].s

\* Thread t enters s.run(x): box x, create the two iterators.
RunStart(t, s, x) ==
    /\ conf.prog = "client"
    /\ ~panicked
    /\ t \in conf.threads
    /\ CanRun(t)
    /\ runs[t].pc = "idle"
    /\ Live(s)
    /\ x \in Inputs(chains[s].A)
    /\ runs' = [runs EXCEPT ![t] =
                  [pc |-> "iter", s |-> s, x |-> x, seg |-> 1, idx |-> 0,
                   res |-> RunBox(x), depth |-> 0, log |-> <<>>,
                   c0 |-> chains[s], ov |-> FALSE]]
    /\ UNCHANGED <<conf, chains, last, panicked, fl, rd, coy>>

\* The iterators yield the next closure and the thread enters f.call((res,)).
RunCall(t) ==
    LET p == NextPos(ChainOf(t).mfns, runs[t].seg, runs[t].idx)
    IN  /\ runs[t].pc = "iter"
        /\ p # <<0, 0>>
        /\ runs' = [runs EXCEPT ![t].pc = "call",
                                ![t].seg = p[1],
                                ![t].idx = p[2],
                                ![t].depth = @ + 1,
                                ![t].log = Append(@, p),
                                ![t].ov = @ \/ Overlaps(t)]
        /\ chains' = [chains EXCEPT ![runs[t].s] = Iterated(@, p)]
        /\ UNCHANGED <<conf, last, panicked, fl, rd, coy>>

\* The closure returns and its result is assigned to res.
RunRet(t) ==
    /\ runs[t].pc = "call"
    /\ \E r \in StepOutcomes(ChainOf(t).mfns[runs[t].seg][runs[t].idx], CallArg(t)) :
          runs' = [runs EXCEPT ![t].pc = "iter",
                               ![t].res = r,
                               ![t].depth = @ - 1,
                               ![t].ov = @ \/ Overlaps(t)]
    /\ UNCHANGED <<conf, chains, last, panicked, fl, rd, coy>>

\* Both iterators are exhausted: unbox res at type B and return it.
RunFinish(t) ==
    /\ runs[t].pc = "iter"
    /\ NextPos(ChainOf(t).mfns, runs[t].seg, runs[t].idx) = <<0, 0>>
    /\ \E r \in (IF runs[t].res.ty = ChainOf(t).B
                 THEN {runs[t].res} ELSE AllInputs \cup {UBVal}) :
          runs' = [runs EXCEPT ![t].pc = "done", ![t].res = r]
    /\ UNCHANGED <<conf, chains, last, panicked, fl, rd, coy>>

\* The caller has taken the result; the borrow of the chain ends.
RunDrop(t) ==
    /\ runs[t].pc = "done"
    /\ runs' = [runs EXCEPT ![t] = IdleRun]
    /\ UNCHANGED <<conf, chains, last, panicked, fl, rd, coy>>

Next ==
    \/ \E s \in Slots, A \in Types : DoNew(s, A)
    \/ \E s \in Slots, f \in Closures : DoHead(s, f)
    \/ \E s \in Slots, f \in Closures : DoPushFront(s, f)
    \/ \E s \in Slots, f \in Closures : DoTail(s, f)
    \/ \E s \in Slots, f \in Closures : DoPushBack(s, f)
    \/ \E s \in Slots, o \in Slots : DoThen(s, o)
    \/ \E t \in Threads, x \in AllInputs : RunStart(t, Callee, x)
    \/ \E t \in Threads : RunCall(t)
    \/ \E t \in Threads : RunRet(t)
    \/ \E t \in Threads : RunFinish(t)
    \/ \E t \in Threads : RunDrop(t)

Spec == Init /\ [][Next]_vars
SpecConc == InitConc /\ [][Next]_vars

\* n iterations of c = c.tail(f), by halving n.
RECURSIVE TailN(_, _, _)
TailN(c, f, n) ==
    IF n = 0 THEN c
    ELSE IF n = 1 THEN MorphismTail(c, f)
    ELSE LET h == n \div 2
             m == TailN(c, f, h)
         IN  IF Len(m.mfns) = 0 THEN m ELSE TailN(m, f, n - h)

(***************************************************************************)
(* SpecFnLike: the clients of Spec together with tests::fn_like, which     *)
(* builds one chain and hands it to Iterator::map as an FnMut.             *)
(***************************************************************************)
FnLikeAppends == 10000         \* for _ in (0..10000)
FnLikeInputs == 100            \* (0..100)
FnLikeExpected == 42004950     \* assert_eq!(res, 42004950)

\* The local f after n iterations of the loop.
FlChain(n) == TailN(New("u64"), "add42", n)
FlF == FlChain(fl.n)

InitFnLike ==
    /\ conf = TestConf("fn_like")
    /\ chains = [s \in Slots |-> NoChain]
    /\ runs = [t \in Threads |-> IdleRun]
    /\ last = NoOp
    /\ panicked = FALSE
    /\ fl = FlState("new", 0, 0, 0, NoVal)
    /\ rd = NoRd
    /\ coy = NoCoy

\* let mut f = Morphism::new::<u64>();
FlNew ==
    /\ fl.pc = "new"
    /\ fl' = [fl EXCEPT !.pc = "build", !.n = 0]
    /\ UNCHANGED <<conf, chains, runs, last, panicked, rd, coy>>

\* One iteration of the loop: f = f.tail(|x| x + 42); the assignment needs
\* the result to have the type of f.
FlTail ==
    /\ fl.pc = "build"
    /\ fl.n < FnLikeAppends
    /\ PushBackTypeOk(New("u64"), "add42")
    /\ fl' = [fl EXCEPT !.n = @ + 1]
    /\ UNCHANGED <<conf, chains, runs, last, panicked, rd, coy>>

\* The loop ends; (0..100).map(f).sum() starts.
FlMap ==
    /\ fl.pc = "build"
    /\ fl.n = FnLikeAppends
    /\ fl' = [fl EXCEPT !.pc = "map", !.i = 0, !.sum = 0]
    /\ UNCHANGED <<conf, chains, runs, last, panicked, rd, coy>>

\* map yields f(i), through FnMut::call_mut and run, and sum adds it.
FlMapNext ==
    /\ fl.pc = "map"
    /\ fl.i < FnLikeInputs
    /\ LET out == Run(FlF, U64(fl.i))
       IN  fl' = [fl EXCEPT !.out = out, !.sum = @ + out.n, !.i = @ + 1]
    /\ UNCHANGED <<conf, chains, runs, last, panicked, rd, coy>>

\* assert_eq!(res, 42004950);
FlAssert ==
    /\ fl.pc = "map"
    /\ fl.i = FnLikeInputs
    /\ fl' = [fl EXCEPT !.pc = IF fl.sum = FnLikeExpected THEN "passed" ELSE "failed"]
    /\ UNCHANGED <<conf, chains, runs, last, panicked, rd, coy>>

NextFnLike ==
    \/ FlNew
    \/ FlTail
    \/ FlMap
    \/ FlMapNext
    \/ FlAssert

SpecFnLike == (Init \/ InitFnLike) /\ [][Next \/ NextFnLike]_vars

(***************************************************************************)
(* SpecReadme: tests::readme.  The two loops are one step each; the calls  *)
(* that follow are one step each.  The test calls h on 0 and on 1000; here *)
(* the first argument x ranges over ReadmeArgs and the second is x + 1000. *)
(* Besides the statements of the test, the program may append Some to f    *)
(* before the composition, as the doc example of then does.                *)
(***************************************************************************)
ReadmeFAppends == 100000       \* for _ in 0..100000
ReadmeGAppends == 99999        \* for _ in 0..99999
MaxReadmeArg == 48
ReadmeArgs == {25 * k : k \in 0..MaxReadmeArg}

\* f after its loop, and after the append of the doc example.
ReadmeF == TailN(New("u64"), "add42", ReadmeFAppends)
ReadmeFSome == MorphismTail(ReadmeF, "some")
\* g after its loop, after each call of the expression that rebinds it.
ReadmeGLoop == TailN(New("Option<u64>"), "sub42", ReadmeGAppends)
ReadmeGTail1 == MorphismTail(ReadmeGLoop, "welp")
ReadmeGTail2 == MorphismTail(ReadmeGTail1, "fst_add42")
ReadmeGTail3 == MorphismTail(ReadmeGTail2, "is_some")
ReadmeG == MorphismHead(ReadmeGTail3, "some")
\* let h = f.then(g);
ReadmeH == Then(ReadmeF, ReadmeG)

\* The locals at the statement the test is at.
RdF ==
    CASE rd.pc \in {"g", "g.tail1", "g.tail2", "g.tail3", "g.head", "then"} -> ReadmeF
      [] rd.pc = "then, f.tail(Some)" -> ReadmeFSome
      [] OTHER -> NoChain
RdG ==
    CASE rd.pc = "g.tail1" -> ReadmeGLoop
      [] rd.pc = "g.tail2" -> ReadmeGTail1
      [] rd.pc = "g.tail3" -> ReadmeGTail2
      [] rd.pc = "g.head" -> ReadmeGTail3
      [] rd.pc \in {"then", "then, f.tail(Some)"} -> ReadmeG
      [] OTHER -> NoChain
RdH == IF rd.pc \in {"call1", "call2", "end"} THEN ReadmeH ELSE NoChain

InitReadme ==
    /\ conf = TestConf("readme")
    /\ chains = [s \in Slots |-> NoChain]
    /\ runs = [t \in Threads |-> IdleRun]
    /\ last = NoOp
    /\ panicked = FALSE
    /\ fl = NoFl
    /\ rd = RdState("f", 0, NoVal, NoVal)
    /\ coy = NoCoy

\* let mut f = Morphism::new::<u64>(); for _ in 0..100000 { f = f.tail(..) }
RdBuildF ==
    /\ rd.pc = "f"
    /\ PushBackTypeOk(New("u64"), "add42")
    /\ rd' = [rd EXCEPT !.pc = "g"]
    /\ UNCHANGED <<conf, chains, runs, last, panicked, fl, coy>>

\* let mut g = Morphism::new::<Option<u64>>(); for _ in 0..99999 { .. }
RdBuildG ==
    /\ rd.pc = "g"
    /\ PushBackTypeOk(New("Option<u64>"), "sub42")
    /\ rd' = [rd EXCEPT !.pc = "g.tail1"]
    /\ UNCHANGED <<conf, chains, runs, last, panicked, fl, coy>>

\* One call of the expression g.tail(..).tail(..).tail(..).head(..).
RdGTail(pc, f, next) ==
    /\ rd.pc = pc
    /\ TailTypeOk(RdG, f)
    /\ rd' = [rd EXCEPT !.pc = next]
    /\ UNCHANGED <<conf, chains, runs, last, panicked, fl, coy>>

RdGHead ==
    /\ rd.pc = "g.head"
    /\ HeadTypeOk(RdG, "some")
    /\ rd' = [rd EXCEPT !.pc = "then"]
    /\ UNCHANGED <<conf, chains, runs, last, panicked, fl, coy>>

\* Not in the test: let f = f.tail(Some), as in the doc example of then.
RdFTailSome ==
    /\ rd.pc = "then"
    /\ TailTypeOk(RdF, "some")
    /\ rd' = [rd EXCEPT !.pc = "then, f.tail(Some)"]
    /\ UNCHANGED <<conf, chains, runs, last, panicked, fl, coy>>

\* let h = f.then(g); compiles only if the types agree, and moves f and g.
RdThen ==
    /\ rd.pc \in {"then", "then, f.tail(Some)"}
    /\ ThenTypeOk(RdF, RdG)
    /\ rd' = [rd EXCEPT !.pc = "call1"]
    /\ UNCHANGED <<conf, chains, runs, last, panicked, fl, coy>>

\* h(x), through Fn::call and run.
RdCall1 ==
    /\ rd.pc = "call1"
    /\ \E x \in ReadmeArgs :
          rd' = [rd EXCEPT !.pc = "call2", !.x = x, !.out1 = Run(RdH, U64(x))]
    /\ UNCHANGED <<conf, chains, runs, last, panicked, fl, coy>>

\* h(x + 1000)
RdCall2 ==
    /\ rd.pc = "call2"
    /\ rd' = [rd EXCEPT !.pc = "end", !.out2 = Run(RdH, U64(rd.x + 1000))]
    /\ UNCHANGED <<conf, chains, runs, last, panicked, fl, coy>>

NextReadme ==
    \/ RdBuildF
    \/ RdBuildG
    \/ RdGTail("g.tail1", "welp", "g.tail2")
    \/ RdGTail("g.tail2", "fst_add42", "g.tail3")
    \/ RdGTail("g.tail3", "is_some", "g.head")
    \/ RdGHead
    \/ RdFTailSome
    \/ RdThen
    \/ RdCall1
    \/ RdCall2

SpecReadme == InitReadme /\ [][NextReadme]_vars

(***************************************************************************)
(* SpecCoyoneda: lib.rs.  A client lifts a container with From::from, maps *)
(* closures over the Coyoneda with fmap, may change the container with     *)
(* natural_transform or, with the closures of test::transform, with        *)
(* transform, and unwraps.                                                 *)
(***************************************************************************)
MaxFmaps == 4

\* The containers the client starts from.
Points ==
    UNION {{Cont("Box", "Box", v.ty, v), Cont("Option", "Some", v.ty, v),
            Cont("Result", "Ok", v.ty, v)} : v \in AllInputs}
      \cup {Cont("Option", "None", ty, NoVal) : ty \in Types}
      \cup {Cont("Result", "Err", ty, NoVal) : ty \in Types}
      \cup {Cont("Box", "Box", "i32", I32(0 - 1))}

\* The closure unwrap hands to the container: move |a| { m.run(a) }.
RunClosure(m) == [m |-> m]
CallRunClosure(f, a) == Run(f.m, a)

\* impl Functor for Box<A>, Option<A>, Result<A, E>: f maps the element, if
\* there is one, and B is its return type.
BoxFmap(p, f, B) == Cont("Box", "Box", B, CallRunClosure(f, p.v))
OptionFmap(p, f, B) ==
    IF p.tag = "Some" THEN Cont("Option", "Some", B, CallRunClosure(f, p.v))
    ELSE Cont("Option", "None", B, NoVal)
ResultFmap(p, f, B) ==
    IF p.tag = "Ok" THEN Cont("Result", "Ok", B, CallRunClosure(f, p.v))
    ELSE Cont("Result", "Err", B, NoVal)
Fmap(p, f, B) ==
    CASE p.kind = "Box" -> BoxFmap(p, f, B)
      [] p.kind = "Option" -> OptionFmap(p, f, B)
      [] p.kind = "Result" -> ResultFmap(p, f, B)

\* impl NaturalTransform<Option<A>> for Box<A> and for Result<A, E>
HasNaturalTransform(p) == p.kind \in {"Box", "Result"}
NaturalTransform(p) ==
    IF p.tag \in {"Box", "Ok"} THEN Cont("Option", "Some", p.ty, p.v)
    ELSE Cont("Option", "None", p.ty, NoVal)

\* impl From<T> for Coyoneda
From(x) == Coyoneda(x, New(x.ty))

\* Mutant: fmap puts the closure at the front of the chain.
CoyonedaFmapHead(c, f) == Coyoneda(c.point, MorphismHead(c.morph, f))
\* impl Functor for Coyoneda
CoyonedaFmap(c, f) == Coyoneda(c.point, MorphismTail(c.morph, f))

\* Coyoneda::natural_transform
CoyonedaNaturalTransform(c) == Coyoneda(NaturalTransform(c.point), c.morph)

\* The arguments of transform in test::transform: f is
\* |x| Option::Some(*x as usize), from Box<i32> to Option<usize>, and g is
\* |x| x as i32.
PointFnOk(f, p) == f = "some_usize" /\ p.kind = "Box" /\ p.ty = "i32"
CallPointFn(f, p) == Cont("Option", "Some", "usize", AsUsize(p.v))
\* where F: Fn(T) -> U, G: Fn(U::Param) -> T::Param
TransformTypeOk(c, f, g) ==
    /\ PointFnOk(f, c.point)
    /\ ArgTy(g) = CallPointFn(f, c.point).ty
    /\ RetTy(g) = c.point.ty
\* Coyoneda::transform
CoyonedaTransform(c, f, g) ==
    Coyoneda(CallPointFn(f, c.point), MorphismHead(c.morph, g))

\* Coyoneda::unwrap
Unwrap(c) ==
    LET m == c.morph
    IN  Fmap(c.point, RunClosure(m), m.B)

InitCoyoneda ==
    /\ conf = TestConf("coyoneda")
    /\ chains = [s \in Slots |-> NoChain]
    /\ runs = [t \in Threads |-> IdleRun]
    /\ last = NoOp
    /\ panicked = FALSE
    /\ fl = NoFl
    /\ rd = NoRd
    /\ coy = CoyState("from", Coyoneda(NoCont, NoChain), NoCont, <<>>, <<>>,
                       FALSE, NoCont)

\* From::from(x); point0 remembers x.
CoyFrom(x) ==
    /\ coy.pc = "from"
    /\ coy' = [coy EXCEPT !.pc = "lifted", !.c = From(x), !.point0 = x]
    /\ UNCHANGED <<conf, chains, runs, last, panicked, fl, rd>>

\* y.fmap(f), for a closure f that takes what the Coyoneda yields; fs
\* remembers the closures in the order of the calls.
CoyFmap(f) ==
    /\ coy.pc = "lifted"
    /\ Len(coy.fs) < MaxFmaps
    /\ ArgTy(f) = coy.c.morph.B
    /\ coy' = [coy EXCEPT !.c = CoyonedaFmap(@, f), !.fs = Append(@, f)]
    /\ UNCHANGED <<conf, chains, runs, last, panicked, fl, rd>>

\* y.natural_transform()
CoyNaturalTransform ==
    /\ coy.pc = "lifted"
    /\ HasNaturalTransform(coy.c.point)
    /\ coy' = [coy EXCEPT !.c = CoyonedaNaturalTransform(@), !.replaced = TRUE]
    /\ UNCHANGED <<conf, chains, runs, last, panicked, fl, rd>>

\* y.transform(f, g)
CoyTransform(f, g) ==
    /\ coy.pc = "lifted"
    /\ TransformTypeOk(coy.c, f, g)
    /\ coy' = [coy EXCEPT !.c = CoyonedaTransform(@, f, g),
                          !.gs = <<g>> \o @, !.replaced = TRUE]
    /\ UNCHANGED <<conf, chains, runs, last, panicked, fl, rd>>

\* y.unwrap()
CoyUnwrap ==
    /\ coy.pc = "lifted"
    /\ coy' = [coy EXCEPT !.pc = "unwrapped", !.out = Unwrap(coy.c),
                          !.c = Coyoneda(NoCont, NoChain)]
    /\ UNCHANGED <<conf, chains, runs, last, panicked, fl, rd>>

NextCoyoneda ==
    \/ \E x \in Points : CoyFrom(x)
    \/ \E f \in Closures : CoyFmap(f)
    \/ CoyNaturalTransform
    \/ CoyTransform("some_usize", "as_i32")
    \/ CoyUnwrap

SpecCoyoneda == InitCoyoneda /\ [][NextCoyoneda]_vars

(***************************************************************************)
(* Properties of the clients (Spec, SpecConc).                             *)
(***************************************************************************)
RECURSIVE AllPosFrom(_, _)
\* Every <<segment, index>> of a list of deques, segment by segment, front
\* to back.
AllPosFrom(mfns, k) ==
    IF k > Len(mfns) THEN <<>>
    ELSE [i \in 1..Len(mfns[k]) |-> <<k, i>>] \o AllPosFrom(mfns, k + 1)
AllPos(mfns) == AllPosFrom(mfns, 1)

\* The stored closures compose: from A, each into the next, to B.
WellTyped(c) ==
    LET fs == Flatten(c.mfns)
    IN  IF fs = <<>> THEN c.A = c.B
        ELSE /\ ArgTy(fs[1]) = c.A
             /\ \A i \in 1..(Len(fs) - 1) : RetTy(fs[i]) = ArgTy(fs[i + 1])
             /\ RetTy(fs[Len(fs)]) = c.B

Defined(v) == v.tag # "UB"

\* C1 (concatenation law): after h = f.then(g), h holds f's closures in f's
\* order followed by g's closures in g's order, and for every input x,
\* h.run(x) = g.run(f.run(x)).
ThenLaw ==
    last.op = "then" =>
        LET h == chains[last.s]
        IN  /\ Flatten(h.mfns) = Flatten(last.pre.mfns) \o Flatten(last.other.mfns)
            /\ \A x \in Inputs(last.pre.A) :
                  /\ Defined(Run(h, x))
                  /\ Run(h, x) = Run(last.other, Run(last.pre, x))

ThenLawWitness ==
    /\ last.op = "then"
    /\ Len(last.pre.mfns) >= 2
    /\ NumSteps(last.pre) >= 1
    /\ NumSteps(last.other) >= 1
    /\ runs["t1"].pc = "done"
    /\ runs["t1"].s = last.s

\* C2 (extension order): for every chain c built through the API and every
\* input x, c.tail(f).run(x) = f(c.run(x)) and c.head(f).run(x) =
\* c.run(f(x)); two tails on the identity run in insertion order, two heads
\* in reverse insertion order.
ExtensionOrder ==
    LET c == chains[last.s]
    IN  /\ last.op = "tail" =>
              \A x \in Inputs(last.pre.A) :
                  /\ Defined(Run(c, x))
                  /\ Run(c, x) = StepCall(last.f, Run(last.pre, x))
        /\ last.op = "head" =>
              \A x \in Inputs(ArgTy(last.f)) :
                  /\ Defined(Run(c, x))
                  /\ Run(c, x) = Run(last.pre, StepCall(last.f, x))
        /\ \A g1 \in Closures :
              /\ (last.op = "tail" /\ last.pre = MorphismTail(New(ArgTy(g1)), g1)) =>
                    \A x \in Inputs(ArgTy(g1)) :
                        Run(c, x) = Call(last.f, Call(g1, x))
              /\ (last.op = "head" /\ last.pre = MorphismHead(New(RetTy(g1)), g1)) =>
                    \A x \in Inputs(ArgTy(last.f)) :
                        Run(c, x) = Call(g1, Call(last.f, x))

ExtensionOrderWitness ==
    /\ last.op = "tail"
    /\ Len(last.pre.mfns) >= 2
    /\ last.pre.mfns[1] # <<>>
    /\ runs["t1"].pc = "done"
    /\ runs["t1"].s = last.s

\* C3 (identity law): a chain that holds no closure, in one empty segment or
\* in several, returns its input unchanged.
IdentityLaw ==
    /\ \A s \in Slots :
          (Live(s) /\ NumSteps(chains[s]) = 0) =>
              \A x \in Inputs(chains[s].A) : Run(chains[s], x) = x
    /\ \A t \in Threads :
          (runs[t].pc = "done" /\ NumSteps(runs[t].c0) = 0) =>
              runs[t].res = runs[t].x

IdentityLawWitness ==
    /\ runs["t1"].pc = "done"
    /\ Len(runs["t1"].c0.mfns) >= 2
    /\ NumSteps(runs["t1"].c0) = 0
    /\ runs["t1"].res = runs["t1"].x

\* C6 (one pass, no recursion): a run calls the stored closures one at a
\* time, segment by segment and front to back, each exactly once; it can
\* always take its next step until all N closures were called, and then it
\* returns; no closure is entered while another one is active.
RunVisitsEachStepOnce ==
    \A t \in Threads :
        LET r == runs[t]
            all == AllPos(r.c0.mfns)
            n == NumSteps(r.c0)
        IN  r.pc # "idle" =>
              /\ Len(r.log) <= Len(all)
              /\ r.log = SubSeq(all, 1, Len(r.log))
              /\ r.depth = (IF r.pc = "call" THEN 1 ELSE 0)
              /\ r.pc = "iter" =>
                    (NextPos(ChainOf(t).mfns, r.seg, r.idx) = <<0, 0>>
                        <=> Len(r.log) = n)
              /\ r.pc = "done" => (r.log = all /\ Len(r.log) = n)
              /\ (/\ r.pc = "done"
                  /\ r.c0.A = "i32"
                  /\ \A i \in 1..n : Flatten(r.c0.mfns)[i] = "inc") =>
                    r.res = I32(r.x.n + n)

RunVisitsEachStepOnceWitness ==
    LET r == runs["t1"]
    IN  /\ r.pc = "done"
        /\ Len(r.log) = 3
        /\ r.log[1][1] # r.log[3][1]

\* C8 (concurrent runs): when calls of run on one chain interleave step by
\* step, each keeps its own running value, none changes the chain, and each
\* returns what it returns when executed alone on its input.  (Calls
\* interleave only in the client that hands the chain to a second thread
\* through unsafe code.)
ConcurrentRuns ==
    \A t \in Threads :
        LET r == runs[t]
            fs == Flatten(r.c0.mfns)
        IN  r.pc # "idle" =>
              /\ chains[r.s] = r.c0
              /\ r.pc = "iter" => r.res = RunSteps(fs, 1, Len(r.log), r.x)
              /\ r.pc = "call" => r.res = RunSteps(fs, 1, Len(r.log) - 1, r.x)
              /\ r.pc = "done" => r.res = Run(r.c0, r.x)

ConcurrentRunsWitness ==
    /\ conf.forced
    /\ runs["t1"].pc = "done" /\ runs["t2"].pc = "done"
    /\ runs["t1"].ov /\ runs["t2"].ov
    /\ runs["t1"].x # runs["t2"].x
    /\ runs["t1"].res # runs["t2"].res
    /\ NumSteps(runs["t1"].c0) >= 2

\* C9 (type agreement): in every chain built through the safe API the first
\* closure takes an A, each closure returns what the next one takes, the
\* last one returns a B, and a chain without closures has A = B; so every
\* cast in run is at the type the pointer was boxed with.
TypeAgreement ==
    /\ \A s \in Slots : Live(s) => WellTyped(chains[s])
    /\ \A t \in Threads :
          LET r == runs[t]
          IN  /\ r.pc = "call" => r.res.ty = ArgTy(ChainOf(t).mfns[r.seg][r.idx])
              /\ r.pc = "done" => (r.res.ty = ChainOf(t).B /\ Defined(r.res))

TypeAgreementWitness ==
    /\ last.op = "head"
    /\ chains[last.s].A = "i32" /\ chains[last.s].B = "String"
    /\ Len(chains[last.s].mfns) >= 2
    /\ NumSteps(chains[last.s]) = 3
    /\ runs["t1"].pc = "done"
    /\ runs["t1"].s = last.s

\* C10 (segment structure): every live chain holds at least one segment, so
\* the unwrap in the pushes never fails; new yields one empty segment; a
\* push keeps the number of segments and adds one closure at the front of
\* the first or the back of the last segment, all else unchanged; then
\* yields f's segments followed by g's, unchanged and unmerged.
SegmentStructure ==
    LET c == chains[last.s]
        p == last.pre
        o == last.other
    IN  /\ ~panicked
        /\ \A s \in Slots : Live(s) => Len(chains[s].mfns) >= 1
        /\ last.op = "new" => c.mfns = << <<>> >>
        /\ last.op \in {"head", "push_front"} =>
              /\ Len(c.mfns) = Len(p.mfns)
              /\ c.mfns[1] = <<last.f>> \o p.mfns[1]
              /\ \A k \in 2..Len(p.mfns) : c.mfns[k] = p.mfns[k]
        /\ last.op \in {"tail", "push_back"} =>
              /\ Len(c.mfns) = Len(p.mfns)
              /\ c.mfns[Len(p.mfns)] = p.mfns[Len(p.mfns)] \o <<last.f>>
              /\ \A k \in 1..(Len(p.mfns) - 1) : c.mfns[k] = p.mfns[k]
        /\ last.op = "then" =>
              /\ Len(c.mfns) = Len(p.mfns) + Len(o.mfns)
              /\ \A k \in 1..Len(p.mfns) : c.mfns[k] = p.mfns[k]
              /\ \A k \in 1..Len(o.mfns) : c.mfns[Len(p.mfns) + k] = o.mfns[k]

SegmentStructureWitness ==
    /\ last.op = "then"
    /\ Len(chains[last.s].mfns) = 3
    /\ \E k \in 1..3 : chains[last.s].mfns[k] = <<>>
    /\ \E k \in 1..3 : Len(chains[last.s].mfns[k]) >= 2

\* The lengths n of the chain of tests::fn_like, while it is being built, for
\* which every i in 0..100 is run.
MaxCheckedAppends == 20

\* C4 (reusability): run does not change the chain: while a run is going on
\* and when it has returned, the segments and their closures are what they
\* were when it started, and what it returns is a function of the chain and
\* the argument alone.  In tests::fn_like the chain of 10000 appends of
\* x + 42 is still that chain after every call, the call on i returns
\* 42 * 10000 + i, and the 100 results sum to 42004950; while the chain is
\* being built and has n appends, run on i returns 42 * n + i.
Reusable ==
    /\ \A t \in Threads :
          LET r == runs[t]
          IN  r.pc # "idle" =>
                /\ chains[r.s] = r.c0
                /\ r.pc = "done" => r.res = Run(r.c0, r.x)
    /\ fl.pc \in {"map", "passed", "failed"} =>
          /\ FlF = Morphism(<<[k \in 1..10000 |-> "add42"]>>, "u64", "u64")
          /\ fl.i >= 1 => fl.out = U64(42 * 10000 + (fl.i - 1))
    /\ (fl.pc = "build" /\ fl.n <= MaxCheckedAppends) =>
          /\ FlChain(fl.n + 1) = MorphismTail(FlF, "add42")
          /\ \A i \in 0..99 : Run(FlF, U64(i)) = U64(42 * fl.n + i)
    /\ fl.pc # "failed"
    /\ fl.pc = "passed" => fl.sum = 42004950

ReusableWitness ==
    /\ fl.pc = "passed"
    /\ fl.i = 100
    /\ fl.out = U64(420099)

\* C5 (end-to-end scenario), as the program has it: f is 100000 appends of
\* x + 42 and nothing else, so that f is a chain from u64 to u64; g is 99999
\* appends of "subtract 42 inside the optional", the three appends, and a
\* prepend of Some, so that g is a chain from u64 to the triple.  The types
\* agree, h = f.then(g) has the segments of f followed by those of g, every
\* step gets a value of its argument type and no subtraction goes below
\* zero, h(0) is (Some(1084), true, "welp") and h(1000) is
\* (Some(2084), true, "welp").
ReadmeScenario ==
    /\ rd.pc = "then" =>
          /\ RdF.B = "u64"
          /\ RdG.A = "u64"
          /\ RdF.mfns = <<[k \in 1..100000 |-> "add42"]>>
          /\ RdG.mfns = << <<"some">> \o [k \in 1..99999 |-> "sub42"]
                            \o <<"welp", "fst_add42", "is_some">> >>
    /\ rd.pc \in {"call1", "call2", "end"} =>
          /\ RdH.mfns = ReadmeF.mfns \o ReadmeG.mfns
          /\ Len(RdH.mfns) = 2
          /\ WellTyped(RdH)
    /\ rd.pc \in {"call2", "end"} =>
          /\ rd.out1 = Triple("Some", rd.x + 1084, TRUE, "welp")
          /\ rd.x = 0 => rd.out1 = Triple("Some", 1084, TRUE, "welp")
    /\ rd.pc = "end" =>
          /\ rd.out2 = Triple("Some", rd.x + 2084, TRUE, "welp")
          /\ rd.x = 0 => rd.out2 = Triple("Some", 2084, TRUE, "welp")

ReadmeScenarioWitness ==
    /\ rd.pc = "end"
    /\ rd.x = 0
    /\ rd.out1 = Triple("Some", 1084, TRUE, "welp")
    /\ rd.out2 = Triple("Some", 2084, TRUE, "welp")

\* C5 as stated: f is 100000 appends of x + 42 and then one append converting
\* to an optional value, g is as above, and the two compose: the output type
\* of f is the input type of g.
ReadmeScenarioAsStated ==
    rd.pc = "then, f.tail(Some)" =>
        /\ RdF.mfns = <<Append([k \in 1..100000 |-> "add42"], "some")>>
        /\ NumSteps(RdG) = 1 + 99999 + 3
        /\ ThenTypeOk(RdF, RdG)

\* The composed function fn(...f1(x)...), by calling the closures one after
\* the other.
RECURSIVE Composed(_, _)
Composed(fs, x) ==
    IF fs = <<>> THEN x ELSE Composed(Tail(fs), Call(Head(fs), x))

\* The container's own fmap, once, with the composed function.
FmapComposed(p, fs) ==
    LET B == IF fs = <<>> THEN p.ty ELSE RetTy(fs[Len(fs)])
    IN  IF p.tag \in {"Box", "Some", "Ok"}
        THEN [p EXCEPT !.ty = B, !.v = Composed(fs, p.v)]
        ELSE [p EXCEPT !.ty = B]

\* C7 (Coyoneda deferral): while the Coyoneda lives, its point is the lifted
\* container (unless natural_transform or transform replaced it) and its
\* chain is one segment holding the closures of the fmap calls in the order
\* of the calls (after those transform put in front);
\* unwrap returns what the container's own fmap returns for the composed
\* function; without an fmap call that is the lifted container; and Box(42),
\* Some(42) and Ok(42) mapped through +1, to_string, + "foo", + "bar" give
\* Box, Some and Ok of "43foobar".
CoyonedaDeferral ==
    /\ coy.pc = "lifted" =>
          /\ ~coy.replaced => coy.c.point = coy.point0
          /\ coy.c.morph.mfns = <<coy.gs \o coy.fs>>
          /\ ~coy.replaced => coy.gs = <<>>
    /\ (coy.pc = "unwrapped" /\ ~coy.replaced) =>
          /\ coy.out = FmapComposed(coy.point0, coy.fs)
          /\ coy.fs = <<>> => coy.out = coy.point0
          /\ (coy.fs = <<"inc", "to_string", "foo", "bar">>
                /\ coy.point0.v = I32(42)) =>
                coy.out = [coy.point0 EXCEPT !.ty = "String",
                                             !.v = Str("43foobar")]

CoyonedaDeferralWitness ==
    /\ coy.pc = "unwrapped"
    /\ ~coy.replaced
    /\ coy.point0 = Cont("Result", "Ok", "i32", I32(42))
    /\ coy.fs = <<"inc", "to_string", "foo", "bar">>
    /\ coy.out = Cont("Result", "Ok", "String", Str("43foobar"))

====
